---- MODULE Spec2Model ----
(***************************************************************************)
(* Model of shodanX.go: the query fan-out of main, the paginated query     *)
(* runner searchShodanPaginated, the DNS-subdomain fetch getDNSSubs, the   *)
(* extractor extractFromMatch and the normalizer uniqueNormalized.         *)
(*                                                                         *)
(* Go strings are modelled as sequences of byte values (ASCII), so that    *)
(* strings.ToLower, strings.TrimSpace, strings.Contains, strings.Split and *)
(* the byte-wise order used by sort.Strings are computed, not assumed.     *)
(* Decoded JSON values (interface{}) are records [t, s, a, o]: t is the    *)
(* dynamic type, s the bytes of a string, a the elements of an array and   *)
(* o the entries <<key, value>> of an object (keys distinct, as in a Go    *)
(* map).                                                                   *)
(*                                                                         *)
(* Spec is a run of main.  SpecNormalize, SpecVerify and SpecExtract are   *)
(* calls of uniqueNormalized, verifyDNSNames and extractFromMatch alone,   *)
(* on arguments drawn from bounded sets.                                   *)
(*                                                                         *)
(* Every action is one step of main or of one goroutine that reads or      *)
(* writes something shared (sem, wg, mu, ticker.C, allSubs, errorsFound,   *)
(* the network); the statements local to the goroutine that follow it are  *)
(* part of the same action.                                                *)
(***************************************************************************)
EXTENDS Integers, Sequences, FiniteSets, TLC

\* ------------------------------------------------------------------------
\* Bounds of the model
\* ------------------------------------------------------------------------
\* number of queries of the query list (main builds 9; the fan-out treats
\* the list as data)
NumQueries == 2
\* largest value of the -pages flag that is explored
MaxPagesFlag == 2
\* largest value of the -concurrency flag that is explored
MaxConcurrency == 2
\* largest length of the argument of a function that is called alone
MaxItems == 3

\* ------------------------------------------------------------------------
\* Program constants
\* ------------------------------------------------------------------------
\* page size of the search API assumed by the early stop
PageSize == 100
\* http.StatusOK
StatusOK == 200

\* ------------------------------------------------------------------------
\* Bytes and strings
\* ------------------------------------------------------------------------
\* the byte "." looked for by strings.Contains
chDot == 46
\* the byte "," strings.Split cuts at
chComma == 44

\* unicode.IsSpace restricted to ASCII: \t \n \v \f \r and space
IsSpace(c) == c \in {9, 10, 11, 12, 13, 32}

LowerByte(c) == IF c >= 65 /\ c <= 90 THEN c + 32 ELSE c

\* strings.ToLower on an ASCII string
ToLower(s) == [i \in 1..Len(s) |-> LowerByte(s[i])]

RECURSIVE TrimLeft(_)
TrimLeft(s) ==
    IF s # <<>> /\ IsSpace(Head(s)) THEN TrimLeft(Tail(s)) ELSE s

RECURSIVE TrimRight(_)
TrimRight(s) ==
    IF s # <<>> /\ IsSpace(s[Len(s)])
    THEN TrimRight(SubSeq(s, 1, Len(s) - 1))
    ELSE s

\* strings.TrimSpace
TrimSpace(s) == TrimRight(TrimLeft(s))

\* strings.Contains(s, ".")
ContainsDot(s) == \E i \in 1..Len(s) : s[i] = chDot

\* Go's s < t on strings: byte-wise lexicographic order
RECURSIVE StrLess(_, _)
StrLess(s, t) ==
    IF t = <<>> THEN FALSE
    ELSE IF s = <<>> THEN TRUE
    ELSE IF Head(s) < Head(t) THEN TRUE
    ELSE IF Head(s) > Head(t) THEN FALSE
    ELSE StrLess(Tail(s), Tail(t))

\* strings.Split(s, ","): the pieces between the commas, empty ones kept
RECURSIVE SplitAcc(_, _, _)
SplitAcc(s, cur, acc) ==
    IF s = <<>> THEN Append(acc, cur)
    ELSE IF Head(s) = chComma
         THEN SplitAcc(Tail(s), <<>>, Append(acc, cur))
         ELSE SplitAcc(Tail(s), Append(cur, Head(s)), acc)

SplitComma(s) == SplitAcc(s, <<>>, <<>>)

\* ------------------------------------------------------------------------
\* Sequences
\* ------------------------------------------------------------------------
RECURSIVE Flatten(_)
Flatten(ss) == IF ss = <<>> THEN <<>> ELSE Head(ss) \o Flatten(Tail(ss))

\* all orders in which the elements of a sequence can be visited
\* (iteration over a Go map is in unspecified order)
RECURSIVE Perms(_)
Perms(s) ==
    IF s = <<>> THEN {<<>>}
    ELSE UNION {{<<s[i]>> \o p :
                   p \in Perms([j \in 1..(Len(s) - 1) |->
                                   IF j < i THEN s[j] ELSE s[j + 1]])}
                : i \in 1..Len(s)}

\* ------------------------------------------------------------------------
\* Normalizer
\* ------------------------------------------------------------------------
RECURSIVE InsertSorted(_, _)
InsertSorted(x, sorted) ==
    IF sorted = <<>> THEN <<x>>
    ELSE IF StrLess(x, Head(sorted)) THEN <<x>> \o sorted
    ELSE <<Head(sorted)>> \o InsertSorted(x, Tail(sorted))

\* sort.Strings: ascending in the byte-wise order of the strings as stored
RECURSIVE SortStrings(_)
SortStrings(ss) ==
    IF ss = <<>> THEN <<>>
    ELSE InsertSorted(Head(ss), SortStrings(Tail(ss)))

\* the key is compared as it is
DedupKey_exact(s) == s
\* key := strings.ToLower(s)
DedupKey(s) == ToLower(s)

\* the loop of uniqueNormalized: trim, drop empty, keep the first string
\* of every lower-cased key with the casing it has
RECURSIVE DedupLoop(_, _, _)
DedupLoop(items, seen, out) ==
    IF items = <<>> THEN out
    ELSE LET s == TrimSpace(Head(items))
             key == DedupKey(s)
         IN IF s = <<>> THEN DedupLoop(Tail(items), seen, out)
            ELSE IF key \notin seen
                 THEN DedupLoop(Tail(items), seen \cup {key}, Append(out, s))
                 ELSE DedupLoop(Tail(items), seen, out)

\* the sort moved in front of the loop
uniqueNormalized_sort_first(items) == DedupLoop(SortStrings(items), {}, <<>>)
uniqueNormalized(items) == SortStrings(DedupLoop(items, {}, <<>>))

\* ------------------------------------------------------------------------
\* Decoded JSON values
\* ------------------------------------------------------------------------
JStr(s) == [t |-> "string", s |-> s, a |-> <<>>, o |-> <<>>]
JArr(a) == [t |-> "array", s |-> <<>>, a |-> a, o |-> <<>>]
JObj(o) == [t |-> "object", s |-> <<>>, a |-> <<>>, o |-> o]
JNum == [t |-> "number", s |-> <<>>, a |-> <<>>, o |-> <<>>]
JNull == [t |-> "null", s |-> <<>>, a |-> <<>>, o |-> <<>>]
\* what a lookup of a missing key, or below a value that is no object, gives
JAbsent == [t |-> "absent", s |-> <<>>, a |-> <<>>, o |-> <<>>]

HasKey(o, k) == \E i \in 1..Len(o) : o[i][1] = k
GetKey(o, k) == o[CHOOSE i \in 1..Len(o) : o[i][1] = k][2]

\* v[k] guarded by the type assertion v.(map[string]interface{})
Child(v, k) ==
    IF v.t = "object" /\ HasKey(v.o, k) THEN GetKey(v.o, k) ELSE JAbsent

\* a string is taken for a list of one string
Elems_lenient(v) ==
    IF v.t = "array" THEN v.a ELSE IF v.t = "string" THEN <<v>> ELSE <<>>
\* the elements of v when v is a []interface{}, none otherwise
Elems(v) == IF v.t = "array" THEN v.a ELSE <<>>

\* the values of v when v is a map[string]interface{}, none otherwise
Values(v) == IF v.t = "object" THEN [i \in 1..Len(v.o) |-> v.o[i][2]] ELSE <<>>

\* ------------------------------------------------------------------------
\* Extractor
\* ------------------------------------------------------------------------
RECURSIVE NonEmptyStrings(_)
NonEmptyStrings(vs) ==
    IF vs = <<>> THEN <<>>
    ELSE (IF Head(vs).t = "string" /\ Head(vs).s # <<>>
          THEN <<Head(vs).s>> ELSE <<>>) \o NonEmptyStrings(Tail(vs))

\* every string is kept, with a "." or without
RECURSIVE DottedStrings_any(_)
DottedStrings_any(vs) ==
    IF vs = <<>> THEN <<>>
    ELSE (IF Head(vs).t = "string" THEN <<Head(vs).s>> ELSE <<>>)
         \o DottedStrings_any(Tail(vs))

RECURSIVE DottedStrings(_)
DottedStrings(vs) ==
    IF vs = <<>> THEN <<>>
    ELSE (IF Head(vs).t = "string" /\ ContainsDot(Head(vs).s)
          THEN <<Head(vs).s>> ELSE <<>>) \o DottedStrings(Tail(vs))

RECURSIVE DottedParts(_)
DottedParts(parts) ==
    IF parts = <<>> THEN <<>>
    ELSE LET part == TrimSpace(Head(parts))
         IN (IF ContainsDot(part) THEN <<part>> ELSE <<>>)
            \o DottedParts(Tail(parts))

\* one value of cert["extensions"]: a list of names or one comma-separated
\* string
ExtensionValue(v) ==
    IF v.t = "array" THEN DottedStrings(v.a)
    ELSE IF v.t = "string" THEN DottedParts(SplitComma(v.s))
    ELSE <<>>

RECURSIVE ExtensionValues(_)
ExtensionValues(vs) ==
    IF vs = <<>> THEN <<>>
    ELSE ExtensionValue(Head(vs)) \o ExtensionValues(Tail(vs))

HttpPart(h) ==
    DottedStrings(<<Child(h, "title")>>) \o DottedStrings(<<Child(h, "host")>>)

\* extractFromMatch(m) with the two map iterations visiting the subject
\* values in order subj and the extension values in order ext
extractInOrder(m, subj, ext) ==
    LET cert == Child(Child(m, "ssl"), "cert")
    IN NonEmptyStrings(Elems(Child(m, "hostnames")))
       \o DottedStrings(subj)
       \o ExtensionValues(ext)
       \o DottedStrings(Elems(Child(cert, "subjectAltName")))
       \o HttpPart(Child(m, "http"))

\* the results extractFromMatch(m) can return: one for every order in which
\* the ranges over the subject map and the extensions map can run
extractFromMatch(m) ==
    LET cert == Child(Child(m, "ssl"), "cert")
    IN {extractInOrder(m, subj, ext) :
          subj \in Perms(Values(Child(cert, "subject"))),
          ext \in Perms(Values(Child(cert, "extensions")))}

\* the results of the loop over sr.Matches
RECURSIVE extractAll(_)
extractAll(recs) ==
    IF recs = <<>> THEN {<<>>}
    ELSE {h \o t : h \in extractFromMatch(Head(recs)),
                   t \in extractAll(Tail(recs))}

\* ------------------------------------------------------------------------
\* Inputs of a run
\* ------------------------------------------------------------------------
Queries == 1..NumQueries

\* the -domain flag: "c"
Domain == <<99>>

\* the hostname made of a one-letter label and the domain
Host(label) == <<label, chDot>> \o Domain

\* Raw Records the search API answers with:
\* {"hostnames": ["A.c"], "ssl": {"cert": {"subject": {"CN": "b.c", "O": "z"}}}}
\* and {"hostnames": ["a.c", ""]}
RecUpper ==
    JObj(<< <<"hostnames", JArr(<<JStr(Host(65))>>)>>,
            <<"ssl", JObj(<< <<"cert", JObj(<< <<"subject",
                JObj(<< <<"CN", JStr(Host(98))>>,
                        <<"O", JStr(<<122>>)>> >>)>> >>)>> >>)>> >>)
RecLower == JObj(<< <<"hostnames", JArr(<<JStr(Host(97)), JStr(<<>>)>>)>> >>)

\* the record that the matches of query q carry first
RecOf(q) == IF q % 2 = 1 THEN RecUpper ELSE RecLower

\* What one HTTP GET can come back with.  err: doGet returned an error;
\* status: the HTTP status; valid: json.Unmarshal accepts the body;
\* n: len(sr.Matches); recs: the first matches of the page, the other
\* n - Len(recs) matches being empty objects.
TransportError == [err |-> TRUE, status |-> 0, valid |-> FALSE, n |-> 0, recs |-> <<>>]
BadStatus == [err |-> FALSE, status |-> 500, valid |-> FALSE, n |-> 0, recs |-> <<>>]
BadJSON == [err |-> FALSE, status |-> StatusOK, valid |-> FALSE, n |-> 0, recs |-> <<>>]
OkPage(n, recs) == [err |-> FALSE, status |-> StatusOK, valid |-> TRUE, n |-> n, recs |-> recs]

\* the way the request of query q for a page fails, when it fails: the
\* three ways are spread over the queries and pages
FailureAt(q, page) ==
    CASE (q + page) % 3 = 0 -> BadStatus
      [] (q + page) % 3 = 1 -> TransportError
      [] OTHER -> BadJSON

\* the page below the full size that the request of query q for a page
\* can get: the empty page and the short page alternate over the queries
\* and pages
PartialPageAt(q, page) ==
    IF (q + page) % 2 = 0 THEN OkPage(0, <<>>)
    ELSE OkPage(PageSize - 1, <<RecOf(q)>>)

\* the responses explored for the request of query q for a page: a
\* failure, an empty or a short page, and a full page
SearchResponses(q, page) ==
    {FailureAt(q, page), PartialPageAt(q, page), OkPage(PageSize, <<RecOf(q)>>)}

\* what the GET of the DNS-subdomain API can come back with; raw is the
\* decoded body, here {} and {"subdomains": ["B", 0]}
OkBody(raw) == [err |-> FALSE, status |-> StatusOK, valid |-> TRUE, raw |-> raw]
DnsResponses ==
    {[err |-> TRUE, status |-> 0, valid |-> FALSE, raw |-> JNull],
     [err |-> FALSE, status |-> 500, valid |-> FALSE, raw |-> JNull],
     [err |-> FALSE, status |-> StatusOK, valid |-> FALSE, raw |-> JNull],
     OkBody(JObj(<<>>)),
     OkBody(JObj(<< <<"subdomains", JArr(<<JStr(<<66>>), JNum>>)>> >>))}

\* ------------------------------------------------------------------------
\* Errors
\* ------------------------------------------------------------------------
NoError == [kind |-> "nil", page |-> 0]
RequestError(page) == [kind |-> "request", page |-> page]
StatusError == [kind |-> "status", page |-> 0]
JSONError(page) == [kind |-> "json", page |-> page]

\* ------------------------------------------------------------------------
\* State
\* ------------------------------------------------------------------------
VARIABLES
    concurrency,   \* the -concurrency flag: capacity of sem
    maxPages,      \* the -pages flag
    mainPc,        \* position of main
    qi,            \* index of the query the range loop of main is at
    sem,           \* number of tokens in the channel sem
    wg,            \* counter of the WaitGroup
    mu,            \* 0 when the mutex is free, else the query of its holder
    tickC,         \* number of ticks buffered in ticker.C (capacity 1)
    ticksIssued,   \* history: ticks the ticker has put into ticker.C
    task,          \* per query: pc, page, results and err of its goroutine
    allSubs,       \* the Result Set
    errorsFound,   \* the error list
    api,           \* history, per query: the responses received, in order,
                   \* each with the candidates extracted from it
    reqs,          \* history, per query: the page numbers requested
    permits,       \* history, per query: ticks taken from ticker.C
    dns,           \* history of the DNS fetch: permits, requests, response
    normInput,     \* history: the argument uniqueNormalized was called with
    stderr,        \* failure reports written to stderr, in order
    stdout,        \* the hostnames printed
    call           \* the call of one function taken alone: its arguments,
                   \* its position and its result (NoCall in a run of main)

vars == <<concurrency, maxPages, mainPc, qi, sem, wg, mu, tickC, ticksIssued,
          task, allSubs, errorsFound, api, reqs, permits, dns, normInput,
          stderr, stdout, call>>

\* the variables of a run of main
run == <<concurrency, maxPages, mainPc, qi, sem, wg, mu, tickC, ticksIssued,
         task, allSubs, errorsFound, api, reqs, permits, dns, normInput,
         stderr, stdout>>

config == <<concurrency, maxPages>>
history == <<api, reqs, permits>>

NotStarted == [pc |-> "idle", page |-> 0, results |-> <<>>, err |-> NoError]
NoCall == [fn |-> "none"]

Init ==
    /\ call = NoCall
    /\ concurrency \in 0..MaxConcurrency
    /\ maxPages \in (-1)..MaxPagesFlag
    /\ mainPc = "for"
    /\ qi = 1
    /\ sem = 0
    /\ wg = 0
    /\ mu = 0
    /\ tickC = 0
    /\ ticksIssued = 0
    /\ task = [q \in Queries |-> NotStarted]
    /\ allSubs = <<>>
    /\ errorsFound = <<>>
    /\ api = [q \in Queries |-> <<>>]
    /\ reqs = [q \in Queries |-> <<>>]
    /\ permits = [q \in Queries |-> 0]
    /\ dns = [permits |-> 0, reqs |-> 0, resp |-> <<>>]
    /\ normInput = <<>>
    /\ stderr = <<>>
    /\ stdout = <<>>

\* ------------------------------------------------------------------------
\* The rate limiter: time.NewTicker sends a tick into ticker.C, a channel
\* of capacity 1, and drops the tick when the channel is full
\* ------------------------------------------------------------------------
Tick ==
    /\ mainPc # "done"
    /\ tickC = 0
    /\ tickC' = 1
    /\ ticksIssued' = ticksIssued + 1
    /\ UNCHANGED <<call, config, mainPc, qi, sem, wg, mu, task, allSubs,
                   errorsFound, history, dns, normInput, stderr, stdout>>

\* ------------------------------------------------------------------------
\* searchShodanPaginated, run by the goroutine of query q
\* ------------------------------------------------------------------------
\* the loop condition page <= maxPages: wait for a tick, or leave the loop
LoopPc_lt(page) == IF page < maxPages THEN "permit" ELSE "ret"
LoopPc(page) == IF page <= maxPages THEN "permit" ELSE "ret"

\* <-rps, and then doGet sends the request for the page
TaskRequest_no_permit(q) ==
    /\ task[q].pc = "permit"
    /\ reqs' = [reqs EXCEPT ![q] = Append(@, task[q].page)]
    /\ task' = [task EXCEPT ![q].pc = "wait"]
    /\ UNCHANGED <<call, config, mainPc, qi, sem, wg, mu, tickC, ticksIssued,
                   allSubs, errorsFound, api, permits, dns, normInput,
                   stderr, stdout>>
TaskRequest(q) ==
    /\ task[q].pc = "permit"
    /\ tickC > 0
    /\ tickC' = tickC - 1
    /\ permits' = [permits EXCEPT ![q] = @ + 1]
    /\ reqs' = [reqs EXCEPT ![q] = Append(@, task[q].page)]
    /\ task' = [task EXCEPT ![q].pc = "wait"]
    /\ UNCHANGED <<call, config, mainPc, qi, sem, wg, mu, ticksIssued,
                   allSubs, errorsFound, api, dns, normInput, stderr, stdout>>

\* return results, err
OnFailure_nil(t, e) == [t EXCEPT !.pc = "ret", !.err = e, !.results = <<>>]
OnFailure(t, e) == [t EXCEPT !.pc = "ret", !.err = e]

\* len(sr.Matches) == 0: break
OnEmpty_continue(t) == [t EXCEPT !.pc = LoopPc(t.page + 1), !.page = @ + 1]
OnEmpty(t) == [t EXCEPT !.pc = "ret"]

\* the early stop len(sr.Matches) < 100
StopsEarly_never(n) == FALSE
StopsEarly(n) == n < PageSize

\* the state of the runner after the response r, from which cands were
\* extracted, to the request for page t.page
AfterResponse(t, r, cands) ==
    IF r.err THEN OnFailure(t, RequestError(t.page))
    ELSE IF r.status # StatusOK THEN OnFailure(t, StatusError)
    ELSE IF ~r.valid THEN OnFailure(t, JSONError(t.page))
    ELSE IF r.n = 0 THEN OnEmpty(t)
    ELSE IF StopsEarly(r.n)
         THEN [t EXCEPT !.pc = "ret", !.results = @ \o cands]
         ELSE [t EXCEPT !.pc = LoopPc(t.page + 1), !.page = @ + 1,
                        !.results = @ \o cands]

\* the candidates the loop over sr.Matches can append for response r
Extracted(r) ==
    IF ~r.err /\ r.status = StatusOK /\ r.valid /\ r.n > 0
    THEN extractAll(r.recs)
    ELSE {<<>>}

\* doGet returns and the rest of the loop body runs
TaskResponse(q) ==
    /\ task[q].pc = "wait"
    /\ \E r \in SearchResponses(q, task[q].page) : \E cands \in Extracted(r) :
          /\ api' = [api EXCEPT ![q] = Append(@, [resp |-> r, cands |-> cands])]
          /\ task' = [task EXCEPT ![q] = AfterResponse(task[q], r, cands)]
    /\ UNCHANGED <<call, config, mainPc, qi, sem, wg, mu, tickC, ticksIssued,
                   allSubs, errorsFound, reqs, permits, dns, normInput,
                   stderr, stdout>>

\* ------------------------------------------------------------------------
\* The goroutine of query q after searchShodanPaginated has returned
\* ------------------------------------------------------------------------
\* the goroutine goes on to its append without waiting for the mutex
TaskLock_unguarded(q) ==
    /\ task[q].pc = "ret"
    /\ mu' = q
    /\ task' = [task EXCEPT ![q].pc = "crit"]
    /\ UNCHANGED <<call, config, mainPc, qi, sem, wg, tickC, ticksIssued,
                   allSubs, errorsFound, history, dns, normInput, stderr,
                   stdout>>
\* mu.Lock(), on the error branch or on the success branch
TaskLock(q) ==
    /\ task[q].pc = "ret"
    /\ mu = 0
    /\ mu' = q
    /\ task' = [task EXCEPT ![q].pc = "crit"]
    /\ UNCHANGED <<call, config, mainPc, qi, sem, wg, tickC, ticksIssued,
                   allSubs, errorsFound, history, dns, normInput, stderr,
                   stdout>>

\* what the goroutine appends to allSubs: on an error nothing, the error
\* goes to errorsFound and subres is dropped
AppendedSubs(t) == IF t.err # NoError THEN <<>> ELSE t.results

\* the entry of errorsFound: the error wrapped with the text of the query
\* the goroutine was started with
ErrorEntry_loopvar(q, e) ==
    [query |-> (IF mainPc = "sem" THEN qi ELSE qi - 1), err |-> e]
ErrorEntry(q, e) == [query |-> q, err |-> e]

\* the error branch returns without mu.Unlock()
TaskWrite_no_unlock_on_error(q) ==
    /\ task[q].pc = "crit"
    /\ mu = q
    /\ errorsFound' = IF task[q].err # NoError
                      THEN Append(errorsFound, ErrorEntry(q, task[q].err))
                      ELSE errorsFound
    /\ allSubs' = allSubs \o AppendedSubs(task[q])
    /\ mu' = IF task[q].err # NoError THEN q ELSE 0
    /\ task' = [task EXCEPT ![q].pc = "release"]
    /\ UNCHANGED <<call, config, mainPc, qi, sem, wg, tickC, ticksIssued,
                   history, dns, normInput, stderr, stdout>>
\* the append made while holding mu, and mu.Unlock()
TaskWrite(q) ==
    /\ task[q].pc = "crit"
    /\ mu = q
    /\ errorsFound' = IF task[q].err # NoError
                      THEN Append(errorsFound, ErrorEntry(q, task[q].err))
                      ELSE errorsFound
    /\ allSubs' = allSubs \o AppendedSubs(task[q])
    /\ mu' = 0
    /\ task' = [task EXCEPT ![q].pc = "release"]
    /\ UNCHANGED <<call, config, mainPc, qi, sem, wg, tickC, ticksIssued,
                   history, dns, normInput, stderr, stdout>>

\* the slot is given back on the success branch only
TaskRelease_success_only(q) ==
    /\ task[q].pc = "release"
    /\ sem > 0
    /\ sem' = IF task[q].err # NoError THEN sem ELSE sem - 1
    /\ task' = [task EXCEPT ![q].pc = "wgdone"]
    /\ UNCHANGED <<call, config, mainPc, qi, wg, mu, tickC, ticksIssued,
                   allSubs, errorsFound, history, dns, normInput, stderr,
                   stdout>>
\* the deferred <-sem, which runs before the deferred wg.Done()
TaskRelease(q) ==
    /\ task[q].pc = "release"
    /\ sem > 0
    /\ sem' = sem - 1
    /\ task' = [task EXCEPT ![q].pc = "wgdone"]
    /\ UNCHANGED <<call, config, mainPc, qi, wg, mu, tickC, ticksIssued,
                   allSubs, errorsFound, history, dns, normInput, stderr,
                   stdout>>

\* wg.Done() is called on the success branch only
TaskDone_success_only(q) ==
    /\ task[q].pc = "wgdone"
    /\ wg' = IF task[q].err # NoError THEN wg ELSE wg - 1
    /\ task' = [task EXCEPT ![q].pc = "done"]
    /\ UNCHANGED <<call, config, mainPc, qi, sem, mu, tickC, ticksIssued,
                   allSubs, errorsFound, history, dns, normInput, stderr,
                   stdout>>
\* the deferred wg.Done()
TaskDone(q) ==
    /\ task[q].pc = "wgdone"
    /\ wg' = wg - 1
    /\ task' = [task EXCEPT ![q].pc = "done"]
    /\ UNCHANGED <<call, config, mainPc, qi, sem, mu, tickC, ticksIssued,
                   allSubs, errorsFound, history, dns, normInput, stderr,
                   stdout>>

\* ------------------------------------------------------------------------
\* main
\* ------------------------------------------------------------------------
\* the head of the range loop over queries, entered with index i: the
\* next position of main
LoopHeadPc(i) == IF i <= NumQueries THEN "sem" ELSE "wait"
\* and the wg.Add(1) of the iteration, if there is one
LoopHeadAdd(i) == IF i <= NumQueries THEN 1 ELSE 0

\* main enters the loop
MainFor ==
    /\ mainPc = "for"
    /\ wg' = wg + LoopHeadAdd(qi)
    /\ mainPc' = LoopHeadPc(qi)
    /\ UNCHANGED <<call, config, qi, sem, mu, tickC, ticksIssued, task,
                   allSubs, errorsFound, history, dns, normInput, stderr,
                   stdout>>

\* a send on sem goes through when the channel holds fewer tokens than its
\* capacity
SemHasRoom_one_more == sem <= concurrency
SemHasRoom == sem < concurrency

\* the send on sem never blocks
MainDispatch_unblocked ==
    /\ mainPc = "sem"
    /\ sem' = sem + 1
    /\ task' = [task EXCEPT ![qi] = [pc |-> LoopPc(1), page |-> 1,
                                     results |-> <<>>, err |-> NoError]]
    /\ qi' = qi + 1
    /\ wg' = wg + LoopHeadAdd(qi + 1)
    /\ mainPc' = LoopHeadPc(qi + 1)
    /\ UNCHANGED <<call, config, mu, tickC, ticksIssued, allSubs,
                   errorsFound, history, dns, normInput, stderr, stdout>>
\* sem <- struct{}{} blocks while the channel is full; then the go
\* statement starts the goroutine of the query, which calls
\* searchShodanPaginated: results is empty and page is 1; main goes on to
\* the head of the next iteration
MainDispatch ==
    /\ mainPc = "sem"
    /\ SemHasRoom
    /\ sem' = sem + 1
    /\ task' = [task EXCEPT ![qi] = [pc |-> LoopPc(1), page |-> 1,
                                     results |-> <<>>, err |-> NoError]]
    /\ qi' = qi + 1
    /\ wg' = wg + LoopHeadAdd(qi + 1)
    /\ mainPc' = LoopHeadPc(qi + 1)
    /\ UNCHANGED <<call, config, mu, tickC, ticksIssued, allSubs,
                   errorsFound, history, dns, normInput, stderr, stdout>>

\* wg.Wait() returns when the counter is zero
WaitGroupIdle_early == wg <= 1
WaitGroupIdle == wg = 0

\* wg.Wait()
MainWait ==
    /\ mainPc = "wait"
    /\ WaitGroupIdle
    /\ mainPc' = "dnsPermit"
    /\ UNCHANGED <<call, config, qi, sem, wg, mu, tickC, ticksIssued, task,
                   allSubs, errorsFound, history, dns, normInput, stderr,
                   stdout>>

\* getDNSSubs: <-rps, and then doGet sends the request
DnsRequest ==
    /\ mainPc = "dnsPermit"
    /\ tickC > 0
    /\ tickC' = tickC - 1
    /\ dns' = [dns EXCEPT !.permits = @ + 1, !.reqs = @ + 1]
    /\ mainPc' = "dnsWait"
    /\ UNCHANGED <<call, config, qi, sem, wg, mu, ticksIssued, task, allSubs,
                   errorsFound, history, normInput, stderr, stdout>>

\* the error getDNSSubs returns for response r
DnsError(r) ==
    IF r.err THEN RequestError(0)
    ELSE IF r.status # StatusOK THEN StatusError
    ELSE IF ~r.valid THEN JSONError(0)
    ELSE NoError

RECURSIVE ComposeLabels(_)
ComposeLabels(vs) ==
    IF vs = <<>> THEN <<>>
    ELSE (IF Head(vs).t = "string"
          THEN <<Head(vs).s \o <<chDot>> \o Domain>> ELSE <<>>)
         \o ComposeLabels(Tail(vs))

\* the hostnames getDNSSubs returns for a decoded body
DnsSubs(raw) == ComposeLabels(Elems(Child(raw, "subdomains")))

\* the error is dropped without a word
DnsReport_silent(e) == <<>>
\* fmt.Fprintln(os.Stderr, "[!] DNS API error:", err)
DnsReport(e) == <<[kind |-> "dns", query |-> 0, err |-> e]>>

\* the error of the DNS fetch ends the run
DnsNextPc_fatal(r) == IF DnsError(r) # NoError THEN "done" ELSE "norm"
\* where main goes on after getDNSSubs has returned for response r: with
\* or without an error, to the normalization
DnsNextPc(r) == "norm"

\* getDNSSubs returns; main reports the error on stderr or appends the
\* hostnames to allSubs
DnsResponse ==
    /\ mainPc = "dnsWait"
    /\ \E r \in DnsResponses :
          /\ dns' = [dns EXCEPT !.resp = <<r>>]
          /\ IF DnsError(r) # NoError
             THEN /\ stderr' = stderr \o DnsReport(DnsError(r))
                  /\ allSubs' = allSubs
             ELSE /\ stderr' = stderr
                  /\ allSubs' = allSubs \o DnsSubs(r.raw)
          /\ mainPc' = DnsNextPc(r)
    /\ UNCHANGED <<call, config, qi, sem, wg, mu, tickC, ticksIssued, task,
                   errorsFound, history, normInput, stdout>>

\* allSubs = uniqueNormalized(allSubs)
MainNormalize ==
    /\ mainPc = "norm"
    /\ normInput' = allSubs
    /\ allSubs' = uniqueNormalized(allSubs)
    /\ mainPc' = "print"
    /\ UNCHANGED <<call, config, qi, sem, wg, mu, tickC, ticksIssued, task,
                   errorsFound, history, dns, stderr, stdout>>

\* the hostnames are printed; the run is one with the -verify flag off, its
\* default, so that verifyDNSNames is not called in between (it is called
\* alone in SpecVerify)
MainPrint ==
    /\ mainPc = "print"
    /\ stdout' = allSubs
    /\ mainPc' = "summary"
    /\ UNCHANGED <<call, config, qi, sem, wg, mu, tickC, ticksIssued, task,
                   allSubs, errorsFound, history, dns, normInput, stderr>>

\* the lines of the error summary
SummaryLines ==
    [i \in 1..Len(errorsFound) |->
        [kind |-> "summary", query |-> errorsFound[i].query,
         err |-> errorsFound[i].err]]

\* the error summary is printed and main returns
MainSummary ==
    /\ mainPc = "summary"
    /\ stderr' = stderr \o SummaryLines
    /\ mainPc' = "done"
    /\ UNCHANGED <<call, config, qi, sem, wg, mu, tickC, ticksIssued, task,
                   allSubs, errorsFound, history, dns, normInput, stdout>>

Next ==
    \/ Tick
    \/ \E q \in Queries : TaskRequest(q)
    \/ \E q \in Queries : TaskResponse(q)
    \/ \E q \in Queries : TaskLock(q)
    \/ \E q \in Queries : TaskWrite(q)
    \/ \E q \in Queries : TaskRelease(q)
    \/ \E q \in Queries : TaskDone(q)
    \/ MainFor
    \/ MainDispatch
    \/ MainWait
    \/ DnsRequest
    \/ DnsResponse
    \/ MainNormalize
    \/ MainPrint
    \/ MainSummary

Spec == Init /\ [][Next]_vars

\* ------------------------------------------------------------------------
\* The run under the scheduling of the Go runtime
\* ------------------------------------------------------------------------
\* a step of main
MainStep ==
    \/ MainFor
    \/ MainDispatch
    \/ MainWait
    \/ DnsRequest
    \/ DnsResponse
    \/ MainNormalize
    \/ MainPrint
    \/ MainSummary

\* a step of the goroutine of q
TaskStep(q) ==
    \/ TaskRequest(q)
    \/ TaskResponse(q)
    \/ TaskLock(q)
    \/ TaskWrite(q)
    \/ TaskRelease(q)
    \/ TaskDone(q)

\* The ticker goes on ticking, doGet returns (the client has a timeout)
\* and every goroutine that can run is run.  A receive on ticker.C and
\* mu.Lock() can lose against another goroutine and be blocked again: the
\* runtime serves the receivers blocked on a channel first come first
\* served, and sync.Mutex hands the mutex over to a waiter that has waited
\* long (starvation mode), so a goroutine that can take its step again and
\* again does take it.  main is not blocked again once it can step.
Fairness ==
    /\ WF_vars(Tick)
    /\ WF_vars(MainStep)
    /\ \A q \in Queries : SF_vars(TaskStep(q))

SpecFair == Init /\ [][Next]_vars /\ Fairness

\* ------------------------------------------------------------------------
\* Functions called alone.  The variables of the run of main keep the
\* values they have before main starts; call holds the arguments, the
\* position of the caller and the results.
\* ------------------------------------------------------------------------
Idle ==
    /\ concurrency = 1
    /\ maxPages = MaxPagesFlag
    /\ mainPc = "for"
    /\ qi = 1
    /\ sem = 0
    /\ wg = 0
    /\ mu = 0
    /\ tickC = 0
    /\ ticksIssued = 0
    /\ task = [q \in Queries |-> NotStarted]
    /\ allSubs = <<>>
    /\ errorsFound = <<>>
    /\ api = [q \in Queries |-> <<>>]
    /\ reqs = [q \in Queries |-> <<>>]
    /\ permits = [q \in Queries |-> 0]
    /\ dns = [permits |-> 0, reqs |-> 0, resp |-> <<>>]
    /\ normInput = <<>>
    /\ stderr = <<>>
    /\ stdout = <<>>

\* the sequences over S of length at most n
SeqsUpTo(S, n) == UNION {[1..k -> S] : k \in 0..n}

\* ------------------------------------------------------------------------
\* uniqueNormalized called on a slice, and then on its own result
\* ------------------------------------------------------------------------
\* the strings "", " ", "a", "A", "B" and " b\t"
NormSamples == {<<>>, <<32>>, <<97>>, <<65>>, <<66>>, <<32, 98, 9>>}

InitNormalize ==
    /\ Idle
    /\ call \in {[fn |-> "uniqueNormalized", pc |-> "call", items |-> x,
                   out |-> <<>>, again |-> <<>>] :
                     x \in SeqsUpTo(NormSamples, MaxItems)}

\* out := uniqueNormalized(items)
Normalize ==
    /\ call.pc = "call"
    /\ call' = [call EXCEPT !.pc = "again",
                            !.out = uniqueNormalized(call.items)]
    /\ UNCHANGED run

\* again := uniqueNormalized(out)
NormalizeAgain ==
    /\ call.pc = "again"
    /\ call' = [call EXCEPT !.pc = "done",
                            !.again = uniqueNormalized(call.out)]
    /\ UNCHANGED run

NextNormalize == Normalize \/ NormalizeAgain

SpecNormalize == InitNormalize /\ [][NextNormalize]_vars

\* ------------------------------------------------------------------------
\* verifyDNSNames called on a slice; net.LookupHost answers as the resolver
\* of the moment does, lookup by lookup
\* ------------------------------------------------------------------------
\* the hostnames "a", "b" and "c"
VerifySamples == {<<97>>, <<98>>, <<99>>}

InitVerify ==
    /\ Idle
    /\ call \in {[fn |-> "verifyDNSNames", pc |-> "range", names |-> x,
                   i |-> 1, looked |-> <<>>, out |-> <<>>] :
                     x \in SeqsUpTo(VerifySamples, MaxItems)}

\* the name is kept when the lookup failed
LookupKeeps_failed(resolved) == ~resolved
\* err == nil
LookupKeeps(resolved) == resolved

\* one iteration of the range loop: the lookup of names[i] and the append
VerifyLookup ==
    /\ call.pc = "range"
    /\ call.i <= Len(call.names)
    /\ \E resolved \in BOOLEAN :
          call' = [call EXCEPT
                     !.i = @ + 1,
                     !.looked = Append(@, resolved),
                     !.out = IF LookupKeeps(resolved)
                             THEN Append(@, call.names[call.i]) ELSE @]
    /\ UNCHANGED run

\* return out
VerifyReturn ==
    /\ call.pc = "range"
    /\ call.i > Len(call.names)
    /\ call' = [call EXCEPT !.pc = "done"]
    /\ UNCHANGED run

NextVerify == VerifyLookup \/ VerifyReturn

SpecVerify == InitVerify /\ [][NextVerify]_vars

\* ------------------------------------------------------------------------
\* extractFromMatch called on one Raw Record
\* ------------------------------------------------------------------------
\* the string made of two letters with "." between them
Dotted(x, y) == <<x, chDot, y>>

\* what m["hostnames"] can be: missing, a number, the string "h.x",
\* ["a.c"] and ["a.c", "", 0, "h"]
HostnamesSamples ==
    {JAbsent, JNum, JStr(Dotted(104, 120)),
     JArr(<<JStr(Dotted(97, 99))>>),
     JArr(<<JStr(Dotted(97, 99)), JStr(<<>>), JNum, JStr(<<104>>)>>)}

\* {"subject": {"CN": "b.c", "O": "d.e", "N": 0, "L": "z"},
\*  "extensions": {"alt": ["e.f", "g", 0], "names": "i.j, k ,l.m", "n": 0},
\*  "subjectAltName": ["n.o", 0, "p"]}
FullCert ==
    JObj(<< <<"subject",
              JObj(<< <<"CN", JStr(Dotted(98, 99))>>,
                      <<"O", JStr(Dotted(100, 101))>>,
                      <<"N", JNum>>,
                      <<"L", JStr(<<122>>)>> >>)>>,
            <<"extensions",
              JObj(<< <<"alt", JArr(<<JStr(Dotted(101, 102)), JStr(<<103>>),
                                      JNum>>)>>,
                      <<"names", JStr(Dotted(105, 106) \o <<chComma, 32, 107,
                                      32, chComma>> \o Dotted(108, 109))>>,
                      <<"n", JNum>> >>)>>,
            <<"subjectAltName",
              JArr(<<JStr(Dotted(110, 111)), JNum, JStr(<<112>>)>>)>> >>)

\* {"subject": "q.x", "extensions": ["r.x"], "subjectAltName": "p.x"}: the
\* three fields with the wrong type
WrongCert ==
    JObj(<< <<"subject", JStr(Dotted(113, 120))>>,
            <<"extensions", JArr(<<JStr(Dotted(114, 120))>>)>>,
            <<"subjectAltName", JStr(Dotted(112, 120))>> >>)

\* {"subject": {"CN": "b.c", "O": "z"}, "extensions": 0}
SubjectCert ==
    JObj(<< <<"subject", JObj(<< <<"CN", JStr(Dotted(98, 99))>>,
                                 <<"O", JStr(<<122>>)>> >>)>>,
            <<"extensions", JNum>> >>)

\* what m["ssl"] can be: missing, the string "s.x", {}, {"cert": "c.x"}
\* and an object with one of the three certificates
SslSamples ==
    {JAbsent, JStr(Dotted(115, 120)), JObj(<<>>),
     JObj(<< <<"cert", JStr(Dotted(99, 120))>> >>),
     JObj(<< <<"cert", FullCert>> >>),
     JObj(<< <<"cert", WrongCert>> >>),
     JObj(<< <<"cert", SubjectCert>> >>)}

\* what m["http"] can be: missing, ["y.x"], {"title": "t.u", "host": "v.w"}
\* and {"title": 0, "host": "w"}
HttpSamples ==
    {JAbsent, JArr(<<JStr(Dotted(121, 120))>>),
     JObj(<< <<"title", JStr(Dotted(116, 117))>>,
             <<"host", JStr(Dotted(118, 119))>> >>),
     JObj(<< <<"title", JNum>>, <<"host", JStr(<<119>>)>> >>)}

\* the entry of key k, none when the key is missing
Entry(k, v) == IF v = JAbsent THEN <<>> ELSE << <<k, v>> >>

\* the Raw Record with the three fields
Record(hostnames, ssl, http) ==
    JObj(Entry("hostnames", hostnames) \o Entry("ssl", ssl)
         \o Entry("http", http))

ExtractSamples ==
    {Record(h, s, t) :
        h \in HostnamesSamples, s \in SslSamples, t \in HttpSamples}

InitExtract ==
    /\ Idle
    /\ call \in {[fn |-> "extractFromMatch", pc |-> "call", m |-> m,
                   out |-> <<>>] : m \in ExtractSamples}

\* out := extractFromMatch(m)
Extract ==
    /\ call.pc = "call"
    /\ \E out \in extractFromMatch(call.m) :
          call' = [call EXCEPT !.pc = "done", !.out = out]
    /\ UNCHANGED run

NextExtract == Extract

SpecExtract == InitExtract /\ [][NextExtract]_vars

\* ------------------------------------------------------------------------
\* Vocabulary of the properties
\* ------------------------------------------------------------------------
Max0(n) == IF n > 0 THEN n ELSE 0

\* the goroutine of q has been started and has not yet given back its slot
InFlight(q) ==
    task[q].pc \in {"permit", "wait", "ret", "crit", "release"}

\* searchShodanPaginated has returned for q
Returned(q) ==
    task[q].pc \in {"ret", "crit", "release", "wgdone", "done"}

\* main is at the normalization or past it
NormOrLater == mainPc \in {"norm", "print", "summary", "done"}
Normalized == mainPc \in {"print", "summary", "done"}

IsFailure(r) == r.err \/ r.status # StatusOK \/ ~r.valid
IsEmptyPage(r) == ~IsFailure(r) /\ r.n = 0
IsShortPage(r) == ~IsFailure(r) /\ r.n > 0 /\ r.n < PageSize
IsFullPage(r) == ~IsFailure(r) /\ r.n = PageSize

\* the execution of q ended in an error
Failed(q) == \E k \in DOMAIN api[q] : IsFailure(api[q][k].resp)

\* the candidates extracted from the first k responses to q
CandsUpTo(q, k) == Flatten([i \in 1..k |-> api[q][i].cands])
QueryCands(q) == CandsUpTo(q, Len(api[q]))

\* the pagination of q has come to its end
RanToCompletion(q) ==
    /\ task[q].pc = "done"
    /\ \/ Len(api[q]) = Max0(maxPages)
       \/ Len(api[q]) > 0 /\ ~IsFullPage(api[q][Len(api[q])].resp)

\* x occurs in y as a block of consecutive elements
IsInfix(x, y) ==
    \E i \in 0..(Len(y) - Len(x)) : SubSeq(y, i + 1, i + Len(x)) = x

\* h occurs in seq up to trimming and letter case
OccursNormalized(h, seq) ==
    \E j \in DOMAIN seq : ToLower(TrimSpace(seq[j])) = ToLower(TrimSpace(h))

ErrorEntriesOf(q) == {i \in DOMAIN errorsFound : errorsFound[i].query = q}

RECURSIVE SumRequests(_)
SumRequests(q) == IF q = 0 THEN 0 ELSE Len(reqs[q]) + SumRequests(q - 1)
TotalRequests == SumRequests(NumQueries) + dns.reqs

RECURSIVE SumPermits(_)
SumPermits(q) == IF q = 0 THEN 0 ELSE permits[q] + SumPermits(q - 1)
TotalPermits == SumPermits(NumQueries) + dns.permits

\* ------------------------------------------------------------------------
\* C1: whatever the query list and for every concurrency limit c >= 1, the
\* number of query tasks that have been started and have not yet released
\* their slot is at most c in every reachable state; so no query beyond the
\* limit is started before a running task has freed a slot.
\* ------------------------------------------------------------------------
C1_ConcurrencyBound ==
    concurrency >= 1 =>
        Cardinality({q \in Queries : InFlight(q)}) <= concurrency

\* the limit is reached and main waits for a slot with a query in hand
C1_Witness ==
    /\ concurrency >= 1
    /\ Cardinality({q \in Queries : InFlight(q)}) = concurrency
    /\ mainPc = "sem"
    /\ qi <= NumQueries

\* ------------------------------------------------------------------------
\* C2: fault isolation.  Once the Result Set has been normalized, every
\* query whose execution did not end in an error has run to completion and
\* all candidates extracted for it are in the sequence that was normalized;
\* the DNS-subdomain fetch has been made; and the error list holds exactly
\* one entry, carrying the query's text, for every query that ended in an
\* error and none for any other query.
\* ------------------------------------------------------------------------
C2_FaultIsolation ==
    Normalized =>
        /\ \A q \in Queries :
              ~Failed(q) => /\ RanToCompletion(q)
                            /\ IsInfix(QueryCands(q), normInput)
        /\ dns.reqs = 1
        /\ Len(dns.resp) = 1
        /\ \A q \in Queries :
              Cardinality(ErrorEntriesOf(q)) = IF Failed(q) THEN 1 ELSE 0
        /\ \A i \in DOMAIN errorsFound : errorsFound[i].query \in Queries

\* the run has ended with a failed query and with a sibling that delivered
\* candidates
C2_Witness ==
    /\ mainPc = "done"
    /\ \E q \in Queries : Failed(q)
    /\ \E q \in Queries : ~Failed(q) /\ QueryCands(q) # <<>>

\* ------------------------------------------------------------------------
\* C3: partial results of a failed query are retained by the run: when a
\* query fails on page k, the candidates extracted from pages 1..k-1 have
\* been added to the Result Set that is normalized and appear, up to
\* normalization, in the final Normalized Hostname Set.
\* ------------------------------------------------------------------------
C3_PartialResultsRetained ==
    Normalized =>
        \A q \in Queries :
            Failed(q) =>
                /\ IsInfix(QueryCands(q), normInput)
                /\ \A i \in DOMAIN QueryCands(q) :
                      TrimSpace(QueryCands(q)[i]) # <<>> =>
                          OccursNormalized(QueryCands(q)[i], allSubs)

\* ------------------------------------------------------------------------
\* C4: join barrier.  When main is at the normalization or past it, every
\* query task has finished, its write to the Result Set or to the error
\* list included, and the DNS-subdomain fetch has returned; so no task
\* writes to the Result Set after normalization has begun.
\* ------------------------------------------------------------------------
C4_JoinBarrier ==
    NormOrLater =>
        /\ \A q \in Queries : task[q].pc = "done"
        /\ Len(dns.resp) = 1
        /\ mu = 0

\* main is about to normalize what tasks have written
C4_Witness ==
    /\ mainPc = "norm"
    /\ allSubs # <<>>
    /\ errorsFound # <<>>

\* ------------------------------------------------------------------------
\* C5: shared rate limiting.  All tasks and the DNS fetch take their permits
\* from the one stream ticker.C: every request was issued on a permit its
\* task took for it (a task has taken as many permits as it has issued
\* requests), every permit taken was issued by the stream and taken once,
\* and so the requests issued never outnumber the permits issued, whatever
\* the concurrency limit is.
\* ------------------------------------------------------------------------
C5_SharedRateLimit ==
    /\ \A q \in Queries : permits[q] = Len(reqs[q])
    /\ dns.permits = dns.reqs
    /\ TotalPermits + tickC = ticksIssued
    /\ TotalRequests <= ticksIssued

\* two tasks run side by side and each has issued a request on a permit of
\* its own
C5_Witness ==
    /\ concurrency >= 2
    /\ \E q1, q2 \in Queries :
          /\ q1 # q2
          /\ task[q1].pc = "wait"
          /\ task[q2].pc = "wait"
    /\ TotalRequests >= 2

\* ------------------------------------------------------------------------
\* C6: pagination bound.  The runner requests the pages 1, 2, 3, ... in
\* increasing order without gap or repeat and issues at most
\* max(0, max_pages) requests; when it has returned and every page it got
\* was a full page, it has issued exactly max_pages requests (none for
\* max_pages <= 0, a number of requests being at least 0) and returns no
\* error.
\* ------------------------------------------------------------------------
C6_PaginationBound ==
    \A q \in Queries :
        /\ \A i \in DOMAIN reqs[q] : reqs[q][i] = i
        /\ Len(reqs[q]) <= Max0(maxPages)
        /\ (Returned(q) /\ \A k \in DOMAIN api[q] : IsFullPage(api[q][k].resp))
              => /\ Len(reqs[q]) = Max0(maxPages)
                 /\ task[q].err = NoError

\* a runner has returned after max_pages full pages
C6_Witness ==
    \E q \in Queries :
        /\ Returned(q)
        /\ maxPages = MaxPagesFlag
        /\ Len(reqs[q]) = MaxPagesFlag
        /\ \A k \in DOMAIN api[q] : IsFullPage(api[q][k].resp)

\* ------------------------------------------------------------------------
\* C7: short-page stop.  When page k comes back non-empty with fewer than
\* 100 matches, the runner extracts its candidates, appends them to those
\* of the pages before, requests no page k+1 and returns all of them
\* without an error.
\* ------------------------------------------------------------------------
C7_ShortPageStop ==
    \A q \in Queries : \A k \in DOMAIN api[q] :
        IsShortPage(api[q][k].resp) =>
            /\ k <= maxPages
            /\ Len(api[q]) = k
            /\ Len(reqs[q]) = k
            /\ Returned(q)
            /\ task[q].results = CandsUpTo(q, k - 1) \o api[q][k].cands
            /\ task[q].err = NoError

\* a short second page after a full first one
C7_Witness ==
    \E q \in Queries :
        /\ Len(api[q]) = 2
        /\ IsFullPage(api[q][1].resp)
        /\ IsShortPage(api[q][2].resp)
        /\ api[q][1].cands # <<>>
        /\ api[q][2].cands # <<>>
        /\ Returned(q)

\* ------------------------------------------------------------------------
\* C8: empty-page stop.  When page k comes back with status 200 and zero
\* matches, the runner issues no further request and returns exactly the
\* candidates of the pages 1..k-1 without an error, and no failure is
\* recorded for the query (an empty first page gives an empty result).
\* ------------------------------------------------------------------------
C8_EmptyPageStop ==
    \A q \in Queries : \A k \in DOMAIN api[q] :
        IsEmptyPage(api[q][k].resp) =>
            /\ Len(api[q]) = k
            /\ Len(reqs[q]) = k
            /\ Returned(q)
            /\ task[q].results = CandsUpTo(q, k - 1)
            /\ (k = 1 => task[q].results = <<>>)
            /\ task[q].err = NoError
            /\ ErrorEntriesOf(q) = {}

\* an empty second page after a full first one, and an empty first page
C8_Witness ==
    /\ \E q \in Queries :
          /\ Len(api[q]) = 2
          /\ IsEmptyPage(api[q][2].resp)
          /\ task[q].results # <<>>
          /\ task[q].pc = "done"
    /\ \E q \in Queries :
          /\ Len(api[q]) = 1
          /\ IsEmptyPage(api[q][1].resp)
          /\ task[q].pc = "done"

\* ------------------------------------------------------------------------
\* C9: runner abort with partial preservation.  When the request for page k
\* ends in a transport error, a status other than 200 or a body that is no
\* valid JSON, the runner issues no further request for the query and
\* returns an error together with exactly the candidates of the pages
\* 1..k-1; every page is requested once, there is no retry.
\* ------------------------------------------------------------------------
C9_AbortKeepsPartial ==
    \A q \in Queries : \A k \in DOMAIN api[q] :
        IsFailure(api[q][k].resp) =>
            /\ Len(api[q]) = k
            /\ Len(reqs[q]) = k
            /\ \A i, j \in DOMAIN reqs[q] : reqs[q][i] = reqs[q][j] => i = j
            /\ Returned(q)
            /\ task[q].err # NoError
            /\ task[q].results = CandsUpTo(q, k - 1)

\* a failure on the second page after a first page that gave candidates
C9_Witness ==
    \E q \in Queries :
        /\ Len(api[q]) = 2
        /\ IsFailure(api[q][2].resp)
        /\ Returned(q)
        /\ task[q].results # <<>>

\* ------------------------------------------------------------------------
\* C10: output determinism.  For fixed API responses the final Normalized
\* Hostname Set, the exact sequence of strings with their casing, is the
\* same in every interleaving of the query tasks: it is the one of the run
\* in which the tasks append to the Result Set in the order of the query
\* list.
\* ------------------------------------------------------------------------
\* what the run appends to the Result Set when the tasks finish in the
\* order of the query list
InOrderResultSet ==
    Flatten([q \in Queries |-> IF Failed(q) THEN <<>> ELSE QueryCands(q)])
    \o (IF DnsError(dns.resp[1]) = NoError THEN DnsSubs(dns.resp[1].raw)
        ELSE <<>>)

C10_OutputDeterminism ==
    mainPc = "done" => stdout = uniqueNormalized(InOrderResultSet)

\* C11: normalization is idempotent.  For every slice of strings, calling
\* uniqueNormalized on the result of uniqueNormalized gives that result
\* again, element for element.
C11_Idempotent ==
    call.pc = "done" => call.again = call.out

\* both calls have returned for a slice the first call changed: strings
\* were trimmed, dropped and put in another order
C11_Witness ==
    /\ call.pc = "done"
    /\ call.items = <<<<32, 98, 9>>, <<97>>, <<65>>>>
    /\ call.out = <<<<97>>, <<98>>>>
    /\ call.again = call.out

\* C12: normalization removes duplicates.  The result of uniqueNormalized
\* holds no empty string, no string with a white space at either end and
\* no two strings that are equal once lower-cased; every string of the
\* result is the trimmed text of an argument; and for every argument that
\* is non-empty once trimmed, exactly one string of the result has its
\* lower-cased trimmed text, namely the trimmed text of the first argument
\* that has it, in the casing of that argument.
C12_Dedup ==
    call.pc # "call" =>
        LET items == call.items
            out == call.out
            Key(p) == ToLower(TrimSpace(items[p]))
            First(p) == CHOOSE f \in 1..p :
                            /\ Key(f) = Key(p)
                            /\ \A g \in 1..(f - 1) : Key(g) # Key(p)
        IN /\ \A i \in 1..Len(out) :
                 /\ out[i] # <<>>
                 /\ ~IsSpace(out[i][1])
                 /\ ~IsSpace(out[i][Len(out[i])])
                 /\ \E p \in 1..Len(items) : out[i] = TrimSpace(items[p])
           /\ \A i, j \in 1..Len(out) :
                 i # j => ToLower(out[i]) # ToLower(out[j])
           /\ \A p \in 1..Len(items) :
                 TrimSpace(items[p]) # <<>> =>
                     /\ Cardinality({i \in 1..Len(out) :
                                        ToLower(out[i]) = Key(p)}) = 1
                     /\ \E i \in 1..Len(out) :
                           out[i] = TrimSpace(items[First(p)])

\* the case of ["A.com", "a.com", "b.com"]: "A" comes before "a", both
\* have the key "a", and the result keeps "A" and the trimmed " b\t"
C12_Witness ==
    /\ call.pc # "call"
    /\ call.items = <<<<65>>, <<97>>, <<32, 98, 9>>>>
    /\ call.out = <<<<65>>, <<98>>>>

\* C13: normalization order.  The result of uniqueNormalized is sorted by
\* the lower-cased form of its strings: of two adjacent strings u before
\* v, the lower-cased v is not before the lower-cased u in the byte-wise
\* lexicographic order, whatever casing the two strings kept.
C13_SortedByLower ==
    call.pc # "call" =>
        \A i \in 1..(Len(call.out) - 1) :
            ~StrLess(ToLower(call.out[i + 1]), ToLower(call.out[i]))

\* ------------------------------------------------------------------------
\* C14: a failure of the DNS-subdomain fetch is not fatal.  When getDNSSubs
\* has returned an error (transport error, status other than 200, malformed
\* body), main is at the normalization or past it; what is normalized is
\* then what the queries appended to the Result Set, the blocks of the
\* queries in some order and nothing else; the Result Set is the
\* normalization of that; and it is what is printed.
\* ------------------------------------------------------------------------
DnsFailed == Len(dns.resp) = 1 /\ DnsError(dns.resp[1]) # NoError

\* the orders in which the goroutines can append
QueryOrders == Perms([q \in Queries |-> q])

\* what the goroutines append to the Result Set when they append in order p
SearchCollected(p) ==
    Flatten([i \in 1..NumQueries |->
                IF Failed(p[i]) THEN <<>> ELSE QueryCands(p[i])])

C14_DnsFailureNotFatal ==
    DnsFailed =>
        /\ NormOrLater
        /\ Normalized =>
              \E p \in QueryOrders :
                  /\ normInput = SearchCollected(p)
                  /\ allSubs = uniqueNormalized(SearchCollected(p))
        /\ mainPc \in {"summary", "done"} => stdout = allSubs

\* the fetch has failed, the run has come to its end and has printed the
\* hostnames of the queries, which the normalization had to change
C14_Witness ==
    /\ DnsFailed
    /\ mainPc = "done"
    /\ stdout # <<>>
    /\ stdout # normInput

\* ------------------------------------------------------------------------
\* C15: failures are propagated as data.  As stated: nothing about a
\* failure is written to stderr before the end-of-run summary, that is
\* before the hostnames are normalized and printed; and once the
\* DNS-subdomain fetch has failed, the error list holds an entry for it, as
\* it holds one for every query that has failed.
\* ------------------------------------------------------------------------
C15_FailuresOnlyInSummary ==
    /\ mainPc # "done" => stderr = <<>>
    /\ DnsFailed => \E i \in DOMAIN errorsFound : errorsFound[i].query = 0
    /\ NormOrLater => \A q \in Queries : Failed(q) => ErrorEntriesOf(q) # {}

\* C15, amended: the failure of a query is kept as an entry of the error
\* list and is written to stderr only in the end-of-run summary, after the
\* hostnames are printed, one line for every entry and in the order of the
\* list; the failure of the DNS-subdomain fetch is written to stderr as
\* soon as getDNSSubs returns, before the normalization, and is never an
\* entry of the error list.  Nothing else about a failure is written.
C15_QueryFailuresInSummary ==
    LET early == IF DnsFailed
                 THEN <<[kind |-> "dns", query |-> 0,
                         err |-> DnsError(dns.resp[1])]>>
                 ELSE <<>>
    IN /\ \A i \in DOMAIN errorsFound : errorsFound[i].query \in Queries
       /\ NormOrLater =>
             \A q \in Queries : Failed(q) <=> ErrorEntriesOf(q) # {}
       /\ mainPc # "done" => stderr = early
       /\ mainPc = "done" =>
             /\ Len(stderr) = Len(early) + Len(errorsFound)
             /\ SubSeq(stderr, 1, Len(early)) = early
             /\ \A i \in DOMAIN errorsFound :
                   stderr[Len(early) + i] =
                       [kind |-> "summary", query |-> errorsFound[i].query,
                        err |-> errorsFound[i].err]

\* the DNS failure is on stderr while main has still to normalize, and a
\* query has failed whose failure is not yet on stderr
C15_Witness ==
    /\ mainPc = "norm"
    /\ DnsFailed
    /\ Len(stderr) = 1
    /\ stderr[1].kind = "dns"
    /\ errorsFound # <<>>

\* ------------------------------------------------------------------------
\* C16: end-to-end composition.  When no query and no fetch has failed (and
\* the hostnames are not verified), the hostnames printed are the
\* normalization of the concatenation, taken in any order, of the
\* candidates extracted from all pages of each query and of the hostnames
\* label "." domain of the string labels of the DNS-subdomain response:
\* whatever the order of the concatenation, its normalization is what is
\* printed.
\* ------------------------------------------------------------------------
\* the candidates of each query and the hostnames of the DNS response
SourceBlocks ==
    [i \in 1..(NumQueries + 1) |->
        IF i <= NumQueries THEN QueryCands(i) ELSE DnsSubs(dns.resp[1].raw)]

C16_Composition ==
    (/\ mainPc = "done"
     /\ \A q \in Queries : ~Failed(q)
     /\ ~DnsFailed) =>
        \A p \in Perms(SourceBlocks) : stdout = uniqueNormalized(Flatten(p))

\* ------------------------------------------------------------------------
\* C17: the verifier is an order-preserving filter.  At every point of the
\* loop, and so when verifyDNSNames returns, out holds exactly the names
\* whose lookup succeeded, each as often as it was looked up with success
\* and in the order of the argument: the k-th string of out is the k-th
\* name that resolved.  A name that does not resolve is left out and the
\* call returns all the same, after one lookup for every name.
\* ------------------------------------------------------------------------
C17_OrderPreservingFilter ==
    LET kept == {p \in DOMAIN call.looked : call.looked[p]}
        Rank(p) == Cardinality({k \in kept : k <= p})
    IN /\ Len(call.looked) = call.i - 1
       /\ Len(call.out) = Cardinality(kept)
       /\ \A p \in kept : call.out[Rank(p)] = call.names[p]
       /\ call.pc = "done" => Len(call.looked) = Len(call.names)

\* "c", "a", "b" with "a" not resolving: the call has returned "c", "b"
C17_Witness ==
    /\ call.pc = "done"
    /\ call.names = <<<<99>>, <<97>>, <<98>>>>
    /\ call.looked = <<TRUE, FALSE, TRUE>>
    /\ call.out = <<<<99>>, <<98>>>>

\* ------------------------------------------------------------------------
\* C18: extraction recall and dot filter.  As stated: every element of
\* m["hostnames"] that is a string is in the result of extractFromMatch;
\* and a value of the subject map of the certificate is in the result if
\* and only if it is a string with a ".", as often as the map holds it.
\* (The sample records use no string of the subject map anywhere else.)
\* ------------------------------------------------------------------------
\* the number of places of seq that hold x
Count(x, seq) == Cardinality({i \in DOMAIN seq : seq[i] = x})

\* the values of m["ssl"]["cert"]["subject"]
SubjectValues(m) == Values(Child(Child(Child(m, "ssl"), "cert"), "subject"))

\* the result holds the dotted strings of the subject map and no other
\* value of it
SubjectExact(m, out) ==
    \A i \in DOMAIN SubjectValues(m) :
        LET v == SubjectValues(m)[i]
        IN IF v.t = "string" /\ ContainsDot(v.s)
           THEN Count(v.s, out) = Count(v, SubjectValues(m))
           ELSE Count(v.s, out) = 0

C18_EveryStringHostname ==
    call.pc = "done" =>
        /\ \A i \in DOMAIN Elems(Child(call.m, "hostnames")) :
              LET h == Elems(Child(call.m, "hostnames"))[i]
              IN h.t = "string" => Count(h.s, call.out) >= 1
        /\ SubjectExact(call.m, call.out)

\* C18, amended: every element of m["hostnames"] that is a non-empty
\* string is in the result of extractFromMatch, with a "." or without, and
\* the result starts with these strings in the order of the array; a value
\* of the subject map of the certificate is in the result if and only if
\* it is a string with a ".", as often as the map holds it.
C18_EveryNonEmptyStringHostname ==
    call.pc = "done" =>
        LET hs == Elems(Child(call.m, "hostnames"))
            kept == {i \in DOMAIN hs : hs[i].t = "string" /\ hs[i].s # <<>>}
            Rank(i) == Cardinality({k \in kept : k <= i})
        IN /\ Len(call.out) >= Cardinality(kept)
           /\ \A i \in kept : call.out[Rank(i)] = hs[i].s
           /\ SubjectExact(call.m, call.out)

\* hostnames ["a.c", "", 0, "h"] and the subject {"CN": "b.c", "O": "d.e",
\* "N": 0, "L": "z"}: the result starts with "a.c", "h" and goes on with
\* "d.e" and "b.c", the map being visited in another order than written
C18_Witness ==
    /\ call.pc = "done"
    /\ Len(Elems(Child(call.m, "hostnames"))) = 4
    /\ Len(SubjectValues(call.m)) = 4
    /\ Len(call.out) >= 4
    /\ SubSeq(call.out, 1, 4) =
          <<Dotted(97, 99), <<104>>, Dotted(100, 101), Dotted(98, 99)>>

\* ------------------------------------------------------------------------
\* C19: extraction is total and field-independent.  For a record of any
\* shape extractFromMatch returns: the call has a result, which is a
\* sequence of strings, possibly empty.  The result is made of the
\* candidates of the six fields, one block after the other, and the block
\* of a field is what the extraction returns for the record that has this
\* field alone, so that no field changes the candidates of another; the
\* block of a field that is missing or has the wrong type, or lies below
\* such a field, is empty.
\* ------------------------------------------------------------------------
\* the record that has of m the field hostnames alone
OnlyHostnames(m) == JObj(Entry("hostnames", Child(m, "hostnames")))

\* the record that has of m the field k of the certificate alone
OnlyCertField(m, k) ==
    JObj(<< <<"ssl", JObj(<< <<"cert",
        JObj(Entry(k, Child(Child(Child(m, "ssl"), "cert"), k)))>> >>)>> >>)

\* the record that has of m the field k of http alone
OnlyHttpField(m, k) ==
    JObj(<< <<"http", JObj(Entry(k, Child(Child(m, "http"), k)))>> >>)

\* the six fields of m, each alone in a record and with the type the
\* extraction reads it as
FieldsAlone(m) ==
    LET cert == Child(Child(m, "ssl"), "cert")
        http == Child(m, "http")
    IN <<[rec |-> OnlyHostnames(m),
          welltyped |-> Child(m, "hostnames").t = "array"],
         [rec |-> OnlyCertField(m, "subject"),
          welltyped |-> Child(cert, "subject").t = "object"],
         [rec |-> OnlyCertField(m, "extensions"),
          welltyped |-> Child(cert, "extensions").t = "object"],
         [rec |-> OnlyCertField(m, "subjectAltName"),
          welltyped |-> Child(cert, "subjectAltName").t = "array"],
         [rec |-> OnlyHttpField(m, "title"),
          welltyped |-> Child(http, "title").t = "string"],
         [rec |-> OnlyHttpField(m, "host"),
          welltyped |-> Child(http, "host").t = "string"]>>

\* the concatenations of one result for each of the records of fs
RECURSIVE Blocks(_)
Blocks(fs) ==
    IF fs = <<>> THEN {<<>>}
    ELSE {h \o t : h \in extractFromMatch(Head(fs).rec),
                   t \in Blocks(Tail(fs))}

C19_TotalFieldIndependent ==
    /\ call.pc = "call" => extractFromMatch(call.m) # {}
    /\ call.pc = "done" =>
          /\ \A i \in DOMAIN call.out :
                \A j \in DOMAIN call.out[i] : call.out[i][j] \in 0..255
          /\ call.out \in Blocks(FieldsAlone(call.m))
          /\ \A i \in DOMAIN FieldsAlone(call.m) :
                ~FieldsAlone(call.m)[i].welltyped =>
                    extractFromMatch(FieldsAlone(call.m)[i].rec) = {<<>>}

\* hostnames is a string, the certificate has its three fields with the
\* wrong type, and the result is the two candidates of http
C19_Witness ==
    /\ call.pc = "done"
    /\ Child(call.m, "hostnames").t = "string"
    /\ Child(Child(call.m, "ssl"), "cert") = WrongCert
    /\ call.out = <<Dotted(116, 117), Dotted(118, 119)>>

\* ------------------------------------------------------------------------
\* C20: mutual exclusion on the shared state.  A goroutine is about to
\* write the Result Set or the error list from its mu.Lock() to its
\* mu.Unlock(); main reads or writes them when it appends the hostnames of
\* the DNS fetch, normalizes, prints and prints the summary.  At most one
\* goroutine is between Lock and Unlock, and it holds the mutex; and while
\* main is at one of its accesses, which take no lock, no goroutine is
\* there nor can come there any more: all of them have ended.
\* ------------------------------------------------------------------------
\* the goroutines between mu.Lock() and mu.Unlock()
Writers == {q \in Queries : task[q].pc = "crit"}

\* the next step of main reads or writes allSubs or errorsFound
MainAccesses == mainPc \in {"dnsWait", "norm", "print", "summary"}

C20_MutualExclusion ==
    /\ Cardinality(Writers) <= 1
    /\ \A q \in Writers : mu = q
    /\ Writers = {} => mu = 0
    /\ MainAccesses => \A q \in Queries : task[q].pc = "done"

\* a goroutine holds the mutex for its append while another one, whose
\* search has returned, waits for the mutex
C20_Witness ==
    \E q1, q2 \in Queries :
        /\ task[q1].pc = "crit"
        /\ mu = q1
        /\ task[q2].pc = "ret"

\* ------------------------------------------------------------------------
\* C21: no lock across blocking operations.  The goroutine that holds the
\* mutex is between its mu.Lock() and its mu.Unlock(): its call of
\* searchShodanPaginated has returned, so it is not waiting for a tick of
\* the rate limiter and every request it has sent has been answered.  A
\* goroutine that is not yet started, is inside searchShodanPaginated, or
\* is past its append (at its deferred calls, or ended) does not hold the
\* mutex.
\* ------------------------------------------------------------------------
C21_NoLockAcrossBlocking ==
    \A q \in Queries :
        /\ mu = q =>
              /\ task[q].pc = "crit"
              /\ Len(api[q]) = Len(reqs[q])
              /\ permits[q] = Len(reqs[q])
        /\ task[q].pc \in {"idle", "permit", "wait", "ret", "release",
                            "wgdone", "done"} => mu # q

\* a goroutine holds the mutex after a search that made requests, while
\* another goroutine waits for the answer to a request
C21_Witness ==
    \E q1, q2 \in Queries :
        /\ mu = q1
        /\ Len(reqs[q1]) > 0
        /\ task[q2].pc = "wait"

\* ------------------------------------------------------------------------
\* C22: admission-slot accounting.  As stated: in every reachable state
\* the number of tokens in sem is the number of goroutines that have been
\* started and have not finished, a goroutine having finished when it has
\* run to its end, its deferred wg.Done() included; and once main is past
\* wg.Wait() the channel is empty.
\* ------------------------------------------------------------------------
\* the goroutines started and not run to their end
Unfinished == {q \in Queries : task[q].pc \notin {"idle", "done"}}

\* main is past wg.Wait()
PastBarrier ==
    mainPc \in {"dnsPermit", "dnsWait", "norm", "print", "summary", "done"}

C22_SlotsOfUnfinished ==
    /\ sem = Cardinality(Unfinished)
    /\ PastBarrier => sem = 0

\* C22, amended: every goroutine gives its slot back exactly once, after
\* an error as after a success, by the deferred <-sem that runs before its
\* deferred wg.Done().  In every reachable state the number of tokens in
\* sem is the number of goroutines that have been started and have not
\* yet run their deferred <-sem; it is the number of goroutines started
\* and not finished less those that are between their <-sem and their
\* wg.Done(); and once main is past wg.Wait() the channel is empty.
C22_SlotAccounting ==
    /\ sem = Cardinality({q \in Queries : InFlight(q)})
    /\ sem = Cardinality(Unfinished)
              - Cardinality({q \in Queries : task[q].pc = "wgdone"})
    /\ PastBarrier => sem = 0

\* a goroutine whose search failed has given back its slot and has not yet
\* called wg.Done(), while one whose search succeeded still has its slot
C22_Witness ==
    \E q1, q2 \in Queries :
        /\ task[q1].pc = "wgdone"
        /\ task[q1].err # NoError
        /\ task[q2].pc = "release"
        /\ task[q2].err = NoError
        /\ sem = 1

\* ------------------------------------------------------------------------
\* C23: fan-out liveness.  With a concurrency of at least 1, when the
\* ticker keeps ticking, every request is answered and every goroutine
\* that can run is run: the goroutine of every query is eventually
\* started, every goroutine that is started eventually runs to its end,
\* and main eventually gets past wg.Wait() and to the normalization;
\* whichever queries succeed and whichever fail.
\* ------------------------------------------------------------------------
\* (A goroutine that has run to its end was started and stays at its end,
\* so the three eventualities are one: main at the normalization with all
\* goroutines at their end.)
C23_FanOutLiveness ==
    concurrency >= 1 =>
        <>(/\ PastBarrier
           /\ NormOrLater
           /\ \A q \in Queries : task[q].pc = "done")

\* main is at the normalization after a run in which a query has failed
\* and another one has succeeded with candidates
C23_Witness ==
    /\ concurrency >= 1
    /\ mainPc = "norm"
    /\ \E q1, q2 \in Queries :
          /\ Failed(q1)
          /\ ~Failed(q2)
          /\ QueryCands(q2) # <<>>
    /\ \A q \in Queries : task[q].pc = "done"

\* ------------------------------------------------------------------------
\* C24: zero concurrency limit.  With -concurrency 0 (sem is then an
\* unbuffered channel nobody receives from) and a query list that is not
\* empty, main never gets further than the send on sem of the first
\* query, where it cannot step: no goroutine is ever started, no request
\* is sent and no tick is taken, main never comes to wg.Wait(), to the DNS
\* fetch or to the normalization, and nothing is printed, no error either.
\* ------------------------------------------------------------------------
C24_ZeroConcurrencyBlocks ==
    (concurrency = 0 /\ NumQueries >= 1) =>
        /\ mainPc \in {"for", "sem"}
        /\ mainPc = "sem" => ~(sem < concurrency)
        /\ qi = 1
        /\ sem = 0
        /\ \A q \in Queries : task[q] = NotStarted
        /\ TotalRequests = 0
        /\ TotalPermits = 0
        /\ allSubs = <<>>
        /\ errorsFound = <<>>
        /\ stderr = <<>>
        /\ stdout = <<>>

\* main is at the send on sem for the first query, after wg.Add(1), and
\* the ticker has ticked in vain
C24_Witness ==
    /\ concurrency = 0
    /\ mainPc = "sem"
    /\ qi = 1
    /\ wg = 1
    /\ tickC = 1
    /\ ticksIssued = 1
====
